---- MODULE Spec2Model ----
(***************************************************************************)
(* The request pipeline of the marketplace client SDK (MarketplaceClient,  *)
(* MarketplaceError, createMarketplaceClientFromEnv).                      *)
(*                                                                         *)
(* Strings are sequences of tokens: a string the caller or the server      *)
(* supplies is a sequence of one-character tokens, a literal of the source *)
(* is one token.  Template literals and joins are concatenations.          *)
(* JavaScript values are records tagged by their type in the field t.      *)
(***************************************************************************)
EXTENDS Integers, Sequences, FiniteSets, TLC

VARIABLES
    config,   \* this.config of the client under study
    host,     \* process.env and window as they were when the client was created
    calls     \* one record per operation call: position, timer, request, response, result

vars == <<config, host, calls>>

(***************************************************************************)
(* JavaScript values                                                        *)
(***************************************************************************)
Undefined == [t |-> "undefined"]
Null == [t |-> "null"]
Str(s) == [t |-> "string", s |-> s]
Num(n) == [t |-> "number", n |-> n]
Bool(b) == [t |-> "boolean", b |-> b]
Arr(a) == [t |-> "array", a |-> a]
Obj(o) == [t |-> "object", o |-> o]

\* a JavaScript function taking no argument: it returns ret, or throws
Fn(ret) == [t |-> "function", throws |-> FALSE, ret |-> ret]
ThrowingFn == [t |-> "function", throws |-> TRUE, ret |-> Undefined]

EmptyObject == [k \in {} |-> Undefined]

\* v is neither false, 0, "", null nor undefined
Truthy(v) ==
    CASE v.t = "undefined" -> FALSE
      [] v.t = "null" -> FALSE
      [] v.t = "string" -> v.s # <<>>
      [] v.t = "number" -> v.n # 0
      [] v.t = "boolean" -> v.b
      [] OTHER -> TRUE

\* v is null or undefined
Nullish(v) == v.t \in {"undefined", "null"}

\* a ?? b
Coalesce(a, b) == IF Nullish(a) THEN b ELSE a

\* v?.k, and v.k for a v that is neither null nor undefined
Get(v, k) == IF v.t = "object" /\ k \in DOMAIN v.o THEN v.o[k] ELSE Undefined

\* { ...a, ...b } on property maps
Spread(a, b) == [k \in (DOMAIN a) \cup (DOMAIN b) |-> IF k \in DOMAIN b THEN b[k] ELSE a[k]]

\* the own properties of a spread operand: none for undefined
Props(v) == IF v.t = "object" THEN v.o ELSE EmptyObject

\* { k: v }
Prop(k, v) == [x \in {k} |-> v]

(***************************************************************************)
(* Errors                                                                   *)
(***************************************************************************)
ErrorValue(name, message) == [t |-> "error", name |-> name, message |-> message]

\* new MarketplaceError(message, statusCode, code)
MarketplaceError(message, statusCode, code) ==
    [t |-> "error", name |-> "MarketplaceError", message |-> message,
     statusCode |-> statusCode, code |-> code]

\* what the transport and the platform raise
AbortError == ErrorValue("AbortError", <<"This operation was aborted">>)
NetworkError == ErrorValue("TypeError", <<"fetch failed">>)
BodyError == ErrorValue("TypeError", <<"terminated">>)
JsonSyntaxError == ErrorValue("SyntaxError", <<"Unexpected end of JSON input">>)
NullPropertyError == ErrorValue("TypeError", <<"Cannot read properties of null">>)
AccessorError == ErrorValue("Error", <<"getUserId failed">>)

(***************************************************************************)
(* Client configuration                                                     *)
(***************************************************************************)
DefaultTimeout == 30000
TimeoutStatus == 408

\* a key of the config object literal handed to the constructor
Absent == [present |-> FALSE, v |-> Undefined]
Given(v) == [present |-> TRUE, v |-> v]

\* { timeout: 30000, getUserId: () => 'dev', ...config }
Constructor(cfg) ==
    [baseUrl |-> cfg.baseUrl.v,
     apiKey |-> cfg.apiKey.v,
     token |-> cfg.token.v,
     timeout |-> IF cfg.timeout.present THEN cfg.timeout.v ELSE Num(DefaultTimeout),
     getUserId |-> IF cfg.getUserId.present THEN cfg.getUserId.v ELSE Fn(Str(<<"dev">>))]

\* this.config.getUserId?.() throws
GetUserIdThrows(cfg) == cfg.getUserId.t = "function" /\ cfg.getUserId.throws

\* this.config.getUserId?.()
CallGetUserId(cfg) == IF cfg.getUserId.t = "function" THEN cfg.getUserId.ret ELSE Undefined

\* the characters of a string value (the type name stands for any other value)
StringOf(v) == IF v.t = "string" THEN v.s ELSE <<v.t>>

\* headers[k] = v
SetHeader(h, k, v) == Spread(h, Prop(k, v))

getHeadersBothAuth(cfg) ==
    LET h0 == Prop("Content-Type", <<"application/json">>)
        userId == Coalesce(CallGetUserId(cfg), Str(<<"dev">>))
        h1 == SetHeader(h0, "x-user-id", StringOf(userId))
        h2 == IF Truthy(cfg.apiKey)
              THEN SetHeader(h1, "x-api-key", StringOf(cfg.apiKey))
              ELSE h1
    IN  IF Truthy(cfg.token)
        THEN SetHeader(h2, "Authorization", <<"Bearer ">> \o StringOf(cfg.token))
        ELSE h2

\* getHeaders(): Content-Type, x-user-id and the authentication header
getHeaders(cfg) ==
    LET h0 == Prop("Content-Type", <<"application/json">>)
        userId == Coalesce(CallGetUserId(cfg), Str(<<"dev">>))
        h1 == SetHeader(h0, "x-user-id", StringOf(userId))
    IN  IF Truthy(cfg.apiKey)
        THEN SetHeader(h1, "x-api-key", StringOf(cfg.apiKey))
        ELSE IF Truthy(cfg.token)
             THEN SetHeader(h1, "Authorization", <<"Bearer ">> \o StringOf(cfg.token))
             ELSE h1

FormDataHeadersWithContentType(cfg) == getHeaders(cfg)

FormDataHeadersTokenFirst(cfg) ==
    LET userId == Coalesce(CallGetUserId(cfg), Str(<<"dev">>))
        h1 == Prop("x-user-id", StringOf(userId))
    IN  IF Truthy(cfg.token)
        THEN SetHeader(h1, "Authorization", <<"Bearer ">> \o StringOf(cfg.token))
        ELSE IF Truthy(cfg.apiKey)
             THEN SetHeader(h1, "x-api-key", StringOf(cfg.apiKey))
             ELSE h1

\* the isFormData branch of fetchWithTimeout: the headers built without Content-Type
FormDataHeaders(cfg) ==
    LET userId == Coalesce(CallGetUserId(cfg), Str(<<"dev">>))
        h1 == Prop("x-user-id", StringOf(userId))
    IN  IF Truthy(cfg.apiKey)
        THEN SetHeader(h1, "x-api-key", StringOf(cfg.apiKey))
        ELSE IF Truthy(cfg.token)
             THEN SetHeader(h1, "Authorization", <<"Bearer ">> \o StringOf(cfg.token))
             ELSE h1

(***************************************************************************)
(* Encodings                                                                *)
(***************************************************************************)
\* the characters of the model's alphabet that encodeURIComponent escapes
PercentCode ==
    [ch \in {"/", "?", "#", "&", "=", "%", "+", " "} |->
        CASE ch = "/" -> "%2F"
          [] ch = "?" -> "%3F"
          [] ch = "#" -> "%23"
          [] ch = "&" -> "%26"
          [] ch = "=" -> "%3D"
          [] ch = "%" -> "%25"
          [] ch = "+" -> "%2B"
          [] ch = " " -> "%20"]

encodeURIComponentRaw(s) == s

\* encodeURIComponent(s), character by character
encodeURIComponent(s) ==
    [i \in 1..Len(s) |-> IF s[i] \in DOMAIN PercentCode THEN PercentCode[s[i]] ELSE s[i]]

\* the application/x-www-form-urlencoded serializer of URLSearchParams: space is +
FormEncode(s) ==
    [i \in 1..Len(s) |->
        IF s[i] = " " THEN "+"
        ELSE IF s[i] \in DOMAIN PercentCode THEN PercentCode[s[i]] ELSE s[i]]

\* URLSearchParams.toString(): name=value pairs joined by &
RECURSIVE ParamsToString(_)
ParamsToString(params) ==
    IF params = <<>> THEN <<>>
    ELSE LET p == Head(params)
             rest == Tail(params)
         IN  <<p[1], "=">> \o FormEncode(p[2])
             \o (IF rest = <<>> THEN <<>> ELSE <<"&">> \o ParamsToString(rest))

\* the characters of the literals the operations put into a url (paths and the
\* parameter names search and category) and of the escapes of encodeURIComponent;
\* any other token of a url after the base URL is one character
LiteralChars ==
    [tok \in {"/api/apps?", "/api/apps/upload", "search", "category",
              "/api/apps/", "/download?version=", "/download", "/manifest", "/health",
              "/add-to-account", "%2F", "%3F", "%23", "%26", "%3D", "%25", "%2B", "%20"} |->
        CASE tok = "/api/apps?" -> <<"/", "a", "p", "i", "/", "a", "p", "p", "s", "?">>
          [] tok = "search" -> <<"s", "e", "a", "r", "c", "h">>
          [] tok = "category" -> <<"c", "a", "t", "e", "g", "o", "r", "y">>
          [] tok = "/api/apps/upload" ->
                <<"/", "a", "p", "i", "/", "a", "p", "p", "s", "/", "u", "p", "l", "o", "a", "d">>
          [] tok = "/api/apps/" -> <<"/", "a", "p", "i", "/", "a", "p", "p", "s", "/">>
          [] tok = "/download?version=" ->
                <<"/", "d", "o", "w", "n", "l", "o", "a", "d", "?",
                  "v", "e", "r", "s", "i", "o", "n", "=">>
          [] tok = "/download" -> <<"/", "d", "o", "w", "n", "l", "o", "a", "d">>
          [] tok = "/manifest" -> <<"/", "m", "a", "n", "i", "f", "e", "s", "t">>
          [] tok = "/health" -> <<"/", "h", "e", "a", "l", "t", "h">>
          [] tok = "/add-to-account" ->
                <<"/", "a", "d", "d", "-", "t", "o", "-", "a", "c", "c", "o", "u", "n", "t">>
          [] tok = "%2F" -> <<"%", "2", "F">>
          [] tok = "%3F" -> <<"%", "3", "F">>
          [] tok = "%23" -> <<"%", "2", "3">>
          [] tok = "%26" -> <<"%", "2", "6">>
          [] tok = "%3D" -> <<"%", "3", "D">>
          [] tok = "%25" -> <<"%", "2", "5">>
          [] tok = "%2B" -> <<"%", "2", "B">>
          [] tok = "%20" -> <<"%", "2", "0">>]

\* the template string as the characters fetch receives
RECURSIVE Chars(_)
Chars(tokens) ==
    IF tokens = <<>> THEN <<>>
    ELSE (IF Head(tokens) \in DOMAIN LiteralChars THEN LiteralChars[Head(tokens)]
          ELSE <<Head(tokens)>>) \o Chars(Tail(tokens))

(***************************************************************************)
(* Operations: the request each one makes                                   *)
(***************************************************************************)
\* RequestInit: method, headers and body, undefined when not given
Options(method, headers, body) == [method |-> method, headers |-> headers, body |-> body]
NoOptions == Options(Undefined, Undefined, Undefined)

\* params of listApps: search and category, each appended when truthy
ListParams(filters) ==
    (IF Truthy(Get(filters, "search"))
     THEN << <<"search", Get(filters, "search").s>> >> ELSE <<>>)
    \o (IF Truthy(Get(filters, "category"))
        THEN << <<"category", Get(filters, "category").s>> >> ELSE <<>>)

\* listApps(filters): url and options
listAppsRequest(cfg, filters) ==
    [url |-> cfg.baseUrl.s \o <<"/api/apps?">> \o ParamsToString(ListParams(filters)),
     options |-> NoOptions]

searchFiltersKeepOld(query, filters) == Obj(Spread(Prop("search", Str(query)), Props(filters)))

\* { ...filters, search: query }
searchFilters(query, filters) == Obj(Spread(Props(filters), Prop("search", Str(query))))

\* searchApps(query, filters) is listApps({ ...filters, search: query })
searchAppsRequest(cfg, query, filters) == listAppsRequest(cfg, searchFilters(query, filters))

getAppRequest(cfg, appId) ==
    [url |-> cfg.baseUrl.s \o <<"/api/apps/">> \o encodeURIComponent(appId),
     options |-> NoOptions]

downloadAppRequestAlwaysVersion(cfg, appId, version) ==
    [url |-> cfg.baseUrl.s \o <<"/api/apps/">> \o encodeURIComponent(appId)
             \o <<"/download?version=">>
             \o (IF version.t = "string" THEN encodeURIComponent(version.s) ELSE <<>>),
     options |-> NoOptions]

downloadAppRequest(cfg, appId, version) ==
    [url |-> IF Truthy(version)
             THEN cfg.baseUrl.s \o <<"/api/apps/">> \o encodeURIComponent(appId)
                  \o <<"/download?version=">> \o encodeURIComponent(version.s)
             ELSE cfg.baseUrl.s \o <<"/api/apps/">> \o encodeURIComponent(appId)
                  \o <<"/download">>,
     options |-> NoOptions]

getAppManifestRequest(cfg, appId) ==
    [url |-> cfg.baseUrl.s \o <<"/api/apps/">> \o encodeURIComponent(appId) \o <<"/manifest">>,
     options |-> NoOptions]

UploadFormDataPackageOnly(file, visibility) ==
    [t |-> "formdata",
     entries |-> << [name |-> "package", value |-> file, filename |-> <<"app.zip">>] >>]

\* new FormData() with the package and the visibility appended
UploadFormData(file, visibility) ==
    [t |-> "formdata",
     entries |->
        << IF file.t = "file"
           THEN [name |-> "package", value |-> file, filename |-> file.name]
           ELSE IF file.t = "blob"
                THEN [name |-> "package", value |-> file, filename |-> <<"app.zip">>]
                ELSE [name |-> "package",
                      value |-> [t |-> "blob", bytes |-> file.bytes],
                      filename |-> <<"app.zip">>],
           [name |-> "visibility", value |-> Str(visibility), filename |-> <<>>] >>]

uploadAppRequest(cfg, file, visibility) ==
    [url |-> cfg.baseUrl.s \o <<"/api/apps/upload">>,
     options |-> Options(Str(<<"POST">>), Undefined, UploadFormData(file, visibility))]

getAppHealthRequest(cfg, appId) ==
    [url |-> cfg.baseUrl.s \o <<"/api/apps/">> \o encodeURIComponent(appId) \o <<"/health">>,
     options |-> NoOptions]

deleteAppRequest(cfg, appId) ==
    [url |-> cfg.baseUrl.s \o <<"/api/apps/">> \o encodeURIComponent(appId),
     options |-> Options(Str(<<"DELETE">>), Undefined, Undefined)]

addAppToAccountRequest(cfg, appId) ==
    [url |-> cfg.baseUrl.s \o <<"/api/apps/">> \o encodeURIComponent(appId)
             \o <<"/add-to-account">>,
     options |-> Options(Str(<<"POST">>), Undefined, Undefined)]

\* an operation call of the caller: the operation and its arguments
Input(op, appId, version, filters, query, file, visibility) ==
    [op |-> op, appId |-> appId, version |-> version, filters |-> filters,
     query |-> query, file |-> file, visibility |-> visibility]

\* url and options handed to fetchWithTimeout by the operation
OpRequest(cfg, in) ==
    CASE in.op = "listApps" -> listAppsRequest(cfg, in.filters)
      [] in.op = "searchApps" -> searchAppsRequest(cfg, in.query, in.filters)
      [] in.op = "getApp" -> getAppRequest(cfg, in.appId)
      [] in.op = "downloadApp" -> downloadAppRequest(cfg, in.appId, in.version)
      [] in.op = "getAppManifest" -> getAppManifestRequest(cfg, in.appId)
      [] in.op = "uploadApp" -> uploadAppRequest(cfg, in.file, in.visibility)
      [] in.op = "getAppHealth" -> getAppHealthRequest(cfg, in.appId)
      [] in.op = "deleteApp" -> deleteAppRequest(cfg, in.appId)
      [] in.op = "addAppToAccount" -> addAppToAccountRequest(cfg, in.appId)
      [] in.op = "fetchWithTimeout" -> in.request

\* the fallback message the operation hands to parseErrorResponse
FallbackMessage(in) ==
    CASE in.op \in {"listApps", "searchApps"} -> <<"Failed to fetch apps">>
      [] in.op = "getApp" -> <<"Failed to fetch app: ">> \o in.appId
      [] in.op = "downloadApp" -> <<"Failed to download app: ">> \o in.appId
      [] in.op = "getAppManifest" -> <<"Failed to fetch manifest: ">> \o in.appId
      [] in.op = "uploadApp" -> <<"Upload failed">>
      [] in.op = "getAppHealth" -> <<"Health check failed">>
      [] in.op = "deleteApp" -> <<"Failed to delete app">>
      [] in.op = "addAppToAccount" -> <<"Failed to add app to account">>

(***************************************************************************)
(* Responses                                                                *)
(***************************************************************************)
\* a response body as the server sends it
JsonBody(val) == [kind |-> "json", val |-> val]
MalformedBody == [kind |-> "malformed"]
EmptyBody == [kind |-> "empty"]
StalledBody == [kind |-> "stalled"]   \* the server never finishes sending it
ResetBody == [kind |-> "reset"]       \* the connection breaks while it is read

Response(status, body) == [status |-> status, body |-> body]

\* response.ok
ok(response) == response.status >= 200 /\ response.status <= 299

\* a settled promise
Fulfilled(value) == [kind |-> "return", value |-> value]
Rejected(error) == [kind |-> "throw", error |-> error]
Pending == [kind |-> "none"]

\* the body can be read to its end (or to its failure)
BodySettles(body) == body.kind # "stalled"

\* await response.json(), for a body that settles
json(body) ==
    CASE body.kind = "json" -> Fulfilled(body.val)
      [] body.kind = "reset" -> Rejected(BodyError)
      [] OTHER -> Rejected(JsonSyntaxError)

\* await response.blob(), for a body that settles
blob(body) ==
    IF body.kind = "reset" THEN Rejected(BodyError)
    ELSE Fulfilled([t |-> "blob", raw |-> body])

parseErrorResponseNoCode(parsed, status, fallbackMessage) ==
    IF parsed.kind = "return" /\ ~Nullish(parsed.value)
    THEN MarketplaceError(
             StringOf(Coalesce(Get(parsed.value, "error"), Str(fallbackMessage))),
             Num(status), Undefined)
    ELSE MarketplaceError(fallbackMessage, Num(status), Undefined)

parseErrorResponseAlwaysFallback(parsed, status, fallbackMessage) ==
    IF parsed.kind = "return" /\ ~Nullish(parsed.value)
    THEN MarketplaceError(
             StringOf(Coalesce(Get(parsed.value, "error"), Str(fallbackMessage))),
             Num(status), Get(parsed.value, "code"))
    ELSE MarketplaceError(<<"Request failed">>, Num(status), Undefined)

\* parseErrorResponse(response, fallbackMessage), parsed being the outcome of
\* response.json(): reading a property of null throws inside the try
parseErrorResponse(parsed, status, fallbackMessage) ==
    IF parsed.kind = "return" /\ ~Nullish(parsed.value)
    THEN MarketplaceError(
             StringOf(Coalesce(Get(parsed.value, "error"), Str(fallbackMessage))),
             Num(status), Get(parsed.value, "code"))
    ELSE MarketplaceError(fallbackMessage, Num(status), Undefined)

\* data.k of a parsed body: a TypeError for null
Field(parsed, k) ==
    IF parsed.kind = "throw" THEN parsed
    ELSE IF Nullish(parsed.value) THEN Rejected(NullPropertyError)
    ELSE Fulfilled(Get(parsed.value, k))

RECURSIVE Reverse(_)
Reverse(s) == IF s = <<>> THEN <<>> ELSE Reverse(Tail(s)) \o <<Head(s)>>

listAppsResultReversed(parsed) ==
    LET apps == Field(parsed, "apps")
    IN  IF apps.kind = "throw" THEN apps
        ELSE IF apps.value.t = "array" THEN Fulfilled(Arr(Reverse(apps.value.a)))
        ELSE Fulfilled(Coalesce(apps.value, Arr(<<>>)))

\* listApps on a 2xx response: data.apps ?? []
listAppsResult(parsed) ==
    LET apps == Field(parsed, "apps")
    IN  IF apps.kind = "throw" THEN apps
        ELSE Fulfilled(Coalesce(apps.value, Arr(<<>>)))

SuccessResultWholeBody(in, body) ==
    CASE in.op \in {"listApps", "searchApps"} -> listAppsResult(json(body))
      [] in.op = "downloadApp" -> blob(body)
      [] OTHER -> json(body)

\* what the operation returns, or throws, once the body of a 2xx response is read
SuccessResult(in, body) ==
    CASE in.op \in {"listApps", "searchApps"} -> listAppsResult(json(body))
      [] in.op \in {"getApp", "uploadApp"} -> Field(json(body), "app")
      [] in.op = "getAppManifest" -> Field(json(body), "manifest")
      [] in.op = "downloadApp" -> blob(body)
      [] in.op \in {"getAppHealth", "addAppToAccount"} -> json(body)

(***************************************************************************)
(* One operation call                                                       *)
(***************************************************************************)
NoFile == [t |-> "none"]
NoInput == Input("none", <<>>, Undefined, Undefined, <<>>, NoFile, <<>>)
NoRequest == [issued |-> FALSE]
NoResponse == [status |-> 0, body |-> EmptyBody]

\* pc: idle, fetch (fetchWithTimeout awaiting fetch), resume (the promise of
\* fetchWithTimeout is settled and the operation, at await this.fetchWithTimeout,
\* has not run on yet), body (awaiting json() or blob() of a 2xx response),
\* errbody (awaiting json() in parseErrorResponse), done.
\* settled: how the promise of fetchWithTimeout settled, while the operation waits.
\* timer: unset, armed (the callback is pending), fired, cleared.
IdleCall ==
    [pc |-> "idle", input |-> NoInput, timer |-> "unset", aborted |-> FALSE,
     request |-> NoRequest, sent |-> 0, response |-> NoResponse, settled |-> Pending,
     result |-> Pending]

\* clearTimeout(timeoutId): a pending callback is cancelled
clearTimeout(timer) == IF timer = "armed" THEN "cleared" ELSE timer

\* the property name of an array index
IndexKey == [i \in {1, 2} |-> IF i = 1 THEN "0" ELSE "1"]

\* ...(options.headers as Record<string, string>): the own enumerable properties
\* of what the options hold.  A plain object gives its entries; an array of
\* [name, value] pairs gives its indices, each pair read by fetch as the string
\* "name,value"; a Headers instance has none, nor has undefined.
SpreadHeaders(h) ==
    CASE h.t = "object" -> h.o
      [] h.t = "array" ->
            [k \in {IndexKey[i] : i \in DOMAIN h.a} |->
                LET i == CHOOSE j \in DOMAIN h.a : IndexKey[j] = k
                IN  <<h.a[i][1], ",">> \o h.a[i][2]]
      [] OTHER -> EmptyObject

\* { ...options, signal: controller.signal, headers: finalHeaders } as fetch sees it
FetchArguments(cfg, req) ==
    LET isFormData == req.options.body.t = "formdata"
        headers == IF isFormData THEN FormDataHeaders(cfg) ELSE getHeaders(cfg)
        supplied == SpreadHeaders(req.options.headers)
    IN  [issued |-> TRUE,
         url |-> req.url,
         method |-> IF req.options.method.t = "string" THEN req.options.method.s
                    ELSE <<"GET">>,
         headers |-> Spread(headers, supplied),
         body |-> req.options.body,
         signal |-> "controller.signal"]

\* the promise of fetchWithTimeout settles: the operation awaiting it runs on in a
\* later microtask; a direct caller of fetchWithTimeout has its outcome
Settle(k, outcome) ==
    IF k.input.op = "fetchWithTimeout"
    THEN [k EXCEPT !.pc = "done", !.result = outcome]
    ELSE [k EXCEPT !.pc = "resume", !.settled = outcome]

fetchWithTimeoutCatchPlainError(k, error) ==
    Settle([k EXCEPT !.timer = clearTimeout(@)],
           Rejected(IF error.name = "AbortError"
                    THEN ErrorValue("Error", <<"Request timeout">>)
                    ELSE error))

fetchWithTimeoutCatchLeak(k, error) ==
    Settle(k,
           Rejected(IF error.name = "AbortError"
                    THEN MarketplaceError(<<"Request timeout">>, Num(TimeoutStatus), Undefined)
                    ELSE error))

fetchWithTimeoutCatchRetry(k, error) ==
    Settle([k EXCEPT !.timer = clearTimeout(@),
                     !.sent = IF error.name = "AbortError" THEN @ ELSE @ + 1],
           Rejected(IF error.name = "AbortError"
                    THEN MarketplaceError(<<"Request timeout">>, Num(TimeoutStatus), Undefined)
                    ELSE error))

fetchWithTimeoutCatchWrap(k, error) ==
    Settle([k EXCEPT !.timer = clearTimeout(@)],
           Rejected(IF error.name = "AbortError"
                    THEN MarketplaceError(<<"Request timeout">>, Num(TimeoutStatus), Undefined)
                    ELSE MarketplaceError(error.message, Undefined, Undefined)))

\* the catch block of fetchWithTimeout: the timer is cleared and the promise of
\* fetchWithTimeout rejects
fetchWithTimeoutCatch(k, error) ==
    Settle([k EXCEPT !.timer = clearTimeout(@)],
           Rejected(IF error.name = "AbortError"
                    THEN MarketplaceError(<<"Request timeout">>, Num(TimeoutStatus), Undefined)
                    ELSE error))

\* the operation up to its first await: the url is built, the timer is armed, the
\* headers are built and fetch is called; when the accessor throws, the catch
\* block runs at once and the operation is left awaiting the rejected promise
fetchWithTimeoutEnter(cfg, k, in) ==
    LET armed == [k EXCEPT !.input = in, !.timer = "armed"]
    IN  IF GetUserIdThrows(cfg)
        THEN fetchWithTimeoutCatch(armed, AccessorError)
        ELSE [armed EXCEPT !.pc = "fetch",
                           !.request = FetchArguments(cfg, OpRequest(cfg, in)),
                           !.sent = @ + 1]

\* fetch resolved: the timer is cleared and the response is returned
fetchWithTimeoutReturn(k, response) ==
    Settle([k EXCEPT !.timer = clearTimeout(@), !.response = response], Fulfilled(response))

OperationAfterFetchDeleteReadsBody(k) ==
    IF ~ok(k.response) THEN [k EXCEPT !.pc = "errbody"]
    ELSE [k EXCEPT !.pc = "body"]

OperationAfterFetchBelow400(k) ==
    IF k.response.status >= 400 THEN [k EXCEPT !.pc = "errbody"]
    ELSE IF k.input.op = "deleteApp"
         THEN [k EXCEPT !.pc = "done", !.result = Fulfilled(Undefined)]
         ELSE [k EXCEPT !.pc = "body"]

\* the operation with the response in hand: parseErrorResponse reads the body of a
\* non-2xx response, deleteApp returns at once on 2xx, the others read the body
OperationAfterFetch(k) ==
    IF ~ok(k.response) THEN [k EXCEPT !.pc = "errbody"]
    ELSE IF k.input.op = "deleteApp"
         THEN [k EXCEPT !.pc = "done", !.result = Fulfilled(Undefined)]
         ELSE [k EXCEPT !.pc = "body"]

BodyReadWrapsFailure(k) ==
    LET outcome == IF k.pc = "errbody"
                   THEN Rejected(parseErrorResponse(json(k.response.body),
                                                    k.response.status,
                                                    FallbackMessage(k.input)))
                   ELSE SuccessResult(k.input, k.response.body)
    IN  [k EXCEPT !.pc = "done",
                  !.result = IF outcome.kind = "throw" /\ outcome.error.name # "MarketplaceError"
                             THEN Rejected(MarketplaceError(outcome.error.message,
                                                            Num(k.response.status), Undefined))
                             ELSE outcome]

\* the operation runs on from await this.fetchWithTimeout(...): a rejection is
\* not caught and becomes the outcome of the call, a response is looked at
OperationResume(k) ==
    IF k.settled.kind = "throw"
    THEN [k EXCEPT !.pc = "done", !.result = k.settled]
    ELSE OperationAfterFetch(k)

\* the body has been read: the operation returns or throws
BodyRead(k) ==
    [k EXCEPT !.pc = "done",
              !.result = IF k.pc = "errbody"
                         THEN Rejected(parseErrorResponse(json(k.response.body),
                                                          k.response.status,
                                                          FallbackMessage(k.input)))
                         ELSE SuccessResult(k.input, k.response.body)]

(***************************************************************************)
(* createMarketplaceClientFromEnv                                           *)
(***************************************************************************)
EnvKeys == {"MARKETPLACE_URL", "MARKETPLACE_API_KEY", "MARKETPLACE_TOKEN"}

\* the host: whether process and window exist, and what process.env and window
\* hold under the three names (undefined when not set)
Host(process, env, window, win) ==
    [process |-> process, env |-> env, window |-> window, win |-> win]

NothingSet == [k \in EnvKeys |-> Undefined]

\* a client created with new MarketplaceClient(config): the host is not consulted
DirectHost == Host(FALSE, NothingSet, FALSE, NothingSet)

\* typeof process !== 'undefined' ? process.env?.[k] : undefined
EnvValue(h, k) == IF h.process THEN h.env[k] ELSE Undefined

\* win?.k, win being window when it exists
WindowValue(h, k) == IF h.window THEN h.win[k] ELSE Undefined

\* createMarketplaceClientFromEnv(getUserId) on the host h
createMarketplaceClientFromEnv(h, getUserId) ==
    LET baseUrl == Coalesce(Coalesce(EnvValue(h, "MARKETPLACE_URL"),
                                     WindowValue(h, "MARKETPLACE_URL")),
                            Str(<<"http://localhost:3002">>))
        apiKey == Coalesce(EnvValue(h, "MARKETPLACE_API_KEY"),
                           WindowValue(h, "MARKETPLACE_API_KEY"))
        token == Coalesce(EnvValue(h, "MARKETPLACE_TOKEN"),
                          WindowValue(h, "MARKETPLACE_TOKEN"))
    IN  Constructor(
            [baseUrl |-> Given(baseUrl),
             apiKey |-> Given(apiKey),
             token |-> Given(token),
             timeout |-> Absent,
             getUserId |-> Given(getUserId)])

(***************************************************************************)
(* The inputs the model draws from                                          *)
(***************************************************************************)
MaxCalls == 2

CallIds == 1..MaxCalls

\* the calls of the sequential specification: one caller, one call at a time
Callers == {1}

BaseUrl == Str(<<"http://mp">>)

UserIdAccessors ==
    {Absent, Given(Undefined), Given(Fn(Str(<<"u", "1">>))), Given(Fn(Str(<<>>))),
     Given(Fn(Undefined)), Given(ThrowingFn)}

\* the config objects handed to the constructor
\* timeout: the key left out, written with undefined, or with a number
ShortTimeout == 5000
TimeoutInputs == {Absent, Given(Undefined), Given(Num(ShortTimeout))}

ConfigInputs ==
    [baseUrl : {Given(BaseUrl)},
     apiKey : {Absent, Given(Str(<<>>)), Given(Str(<<"k", "1">>))},
     token : {Absent, Given(Str(<<>>)), Given(Str(<<"t", "1">>))},
     timeout : {Absent},
     getUserId : UserIdAccessors]
    \cup [baseUrl : {Given(BaseUrl)},
          apiKey : {Absent},
          token : {Absent, Given(Str(<<"t", "1">>))},
          timeout : TimeoutInputs,
          getUserId : {Absent}]

AppIds == {<<"a", "1">>, <<"a", "/", "b">>}

FilterInputs ==
    {Undefined,
     Obj(EmptyObject),
     Obj(Prop("search", Str(<<"o", "l", "d">>))),
     Obj(Prop("category", Str(<<"t", "o", "o", "l", "s">>))),
     Obj(Prop("category", Str(<<>>))),
     Obj([k \in {"search", "category", "visibility"} |->
            CASE k = "search" -> Str(<<"o", "l", "d">>)
              [] k = "category" -> Str(<<"t", "o", "o", "l", "s">>)
              [] k = "visibility" -> Str(<<"global">>)])}

SearchFilterInputs == {f \in FilterInputs : f = Undefined \/ "category" \in DOMAIN Props(f)}

Queries == {<<"w", "e", "a">>, <<>>}

Files ==
    {[t |-> "file", name |-> <<"p", ".", "z">>, bytes |-> "bytes"],
     [t |-> "blob", bytes |-> "bytes"],
     [t |-> "buffer", bytes |-> "bytes"]}

AppA == Obj(Prop("id", Str(<<"A">>)))
AppB == Obj(Prop("id", Str(<<"B">>)))

ById(op) == {Input(op, id, Undefined, Undefined, <<>>, NoFile, <<>>) : id \in AppIds}

\* the operation calls of the caller
Inputs ==
    {Input("listApps", <<>>, Undefined, f, <<>>, NoFile, <<>>) : f \in FilterInputs}
    \cup {Input("searchApps", <<>>, Undefined, f, q, NoFile, <<>>) :
            f \in SearchFilterInputs, q \in Queries}
    \cup ById("getApp") \cup ById("getAppManifest") \cup ById("getAppHealth")
    \cup ById("deleteApp") \cup ById("addAppToAccount")
    \cup {Input("downloadApp", <<"a", "1">>, v, Undefined, <<>>, NoFile, <<>>) :
            v \in {Undefined, Str(<<>>), Str(<<"1", ".", "0">>)}}
    \cup {Input("downloadApp", <<"a", "/", "b">>, Undefined, Undefined, <<>>, NoFile, <<>>)}
    \cup {Input("uploadApp", <<>>, Undefined, Undefined, <<>>, f, <<"private">>) : f \in Files}
    \cup {Input("uploadApp", <<>>, Undefined, Undefined, <<>>,
                [t |-> "file", name |-> <<"p", ".", "z">>, bytes |-> "bytes"], <<"global">>)}

Statuses == {200, 299, 300, 403, 404}

ErrorXY ==
    Obj([k \in {"error", "code"} |-> IF k = "error" THEN Str(<<"X">>) ELSE Str(<<"Y">>)])

\* { "error": "", "code": "Y" }
ErrorEmptyY ==
    Obj([k \in {"error", "code"} |-> IF k = "error" THEN Str(<<>>) ELSE Str(<<"Y">>)])

Bodies ==
    {MalformedBody, EmptyBody, StalledBody, ResetBody,
     JsonBody(Null),
     JsonBody(Obj(EmptyObject)),
     JsonBody(ErrorXY),
     JsonBody(ErrorEmptyY),
     JsonBody(Obj(Prop("error", Str(<<"Not authorized">>)))),
     JsonBody(Obj(Prop("code", Str(<<"Y">>)))),
     JsonBody(Obj(Prop("apps", Arr(<<AppA, AppB>>)))),
     JsonBody(Obj(Prop("app", AppA))),
     JsonBody(Obj(Prop("manifest", AppB))),
     JsonBody(Obj(Prop("healthy", Bool(TRUE))))}

Responses == {Response(s, b) : s \in Statuses, b \in Bodies}

(***************************************************************************)
(* The state machine                                                        *)
(***************************************************************************)
Init ==
    /\ config \in {Constructor(cfg) : cfg \in ConfigInputs}
    /\ host = DirectHost
    /\ calls = [c \in CallIds |-> IdleCall]

StartCallCachesUserId(c, in) ==
    /\ calls[c].pc = "idle"
    /\ calls' = [calls EXCEPT ![c] = fetchWithTimeoutEnter(config, @, in)]
    /\ config' = [config EXCEPT !.getUserId =
                     IF GetUserIdThrows(config) THEN @ ELSE Fn(CallGetUserId(config))]
    /\ UNCHANGED host

\* the caller invokes an operation: everything up to the first await
StartCall(c, in) ==
    /\ calls[c].pc = "idle"
    /\ calls' = [calls EXCEPT ![c] = fetchWithTimeoutEnter(config, @, in)]
    /\ UNCHANGED <<config, host>>

controllerOfClient(c) == CHOOSE d \in CallIds : TRUE

\* const controller = new AbortController(): the controller of call c is its own
controller(c) == c

\* the timer callback of call c runs: controller.abort() sets the signal of every
\* call in flight that was given this controller's signal
TimerFire(c) ==
    /\ calls[c].timer = "armed"
    /\ calls' = [d \in CallIds |->
                   IF d = c
                   THEN [calls[d] EXCEPT !.timer = "fired", !.aborted = TRUE]
                   ELSE IF controller(d) = controller(c) /\ calls[d].pc # "idle"
                        THEN [calls[d] EXCEPT !.aborted = TRUE]
                        ELSE calls[d]]
    /\ UNCHANGED <<config, host>>

\* the transport delivers the status and the headers of a response: the
\* continuation of fetchWithTimeout after await fetch
FetchResolve(c, response) ==
    /\ calls[c].pc = "fetch"
    /\ ~calls[c].aborted
    /\ calls' = [calls EXCEPT ![c] = fetchWithTimeoutReturn(@, response)]
    /\ UNCHANGED <<config, host>>

\* the continuation of the operation after await this.fetchWithTimeout(...)
Resume(c) ==
    /\ calls[c].pc = "resume"
    /\ calls' = [calls EXCEPT ![c] = OperationResume(@)]
    /\ UNCHANGED <<config, host>>

\* the transport fails: DNS failure, connection refused
FetchFail(c) ==
    /\ calls[c].pc = "fetch"
    /\ ~calls[c].aborted
    /\ calls' = [calls EXCEPT ![c] = fetchWithTimeoutCatch(@, NetworkError)]
    /\ UNCHANGED <<config, host>>

\* fetch rejects because the signal was aborted
FetchAbort(c) ==
    /\ calls[c].pc = "fetch"
    /\ calls[c].aborted
    /\ calls' = [calls EXCEPT ![c] = fetchWithTimeoutCatch(@, AbortError)]
    /\ UNCHANGED <<config, host>>

\* json() or blob() settles
BodyDone(c) ==
    /\ calls[c].pc \in {"body", "errbody"}
    /\ BodySettles(calls[c].response.body)
    /\ calls' = [calls EXCEPT ![c] = BodyRead(@)]
    /\ UNCHANGED <<config, host>>

\* the caller has the outcome and may call again
Return(c) ==
    /\ calls[c].pc = "done"
    /\ calls' = [calls EXCEPT ![c] = IdleCall]
    /\ UNCHANGED <<config, host>>

\* one caller, one call at a time, every input and every response
Next ==
    \E c \in Callers :
        \/ \E in \in Inputs : StartCall(c, in)
        \/ TimerFire(c)
        \/ \E response \in Responses : FetchResolve(c, response)
        \/ Resume(c)
        \/ FetchFail(c)
        \/ FetchAbort(c)
        \/ BodyDone(c)
        \/ Return(c)

Spec == Init /\ [][Next]_vars

(***************************************************************************)
(* Several calls in flight on one client, over fewer inputs                 *)
(***************************************************************************)
ConcConfigInputs ==
    [baseUrl : {Given(BaseUrl)},
     apiKey : {Given(Str(<<"k", "1">>))},
     token : {Absent},
     timeout : {Absent},
     getUserId : {Absent, Given(ThrowingFn)}]

ConcInputs ==
    {Input("listApps", <<>>, Undefined, Undefined, <<>>, NoFile, <<>>),
     Input("downloadApp", <<"a", "1">>, Undefined, Undefined, <<>>, NoFile, <<>>),
     Input("deleteApp", <<"a", "1">>, Undefined, Undefined, <<>>, NoFile, <<>>)}

ConcResponses ==
    {Response(s, b) :
        s \in {200, 403},
        b \in {MalformedBody, StalledBody, JsonBody(Obj(Prop("apps", Arr(<<AppA, AppB>>))))}}

ConcInit ==
    /\ config \in {Constructor(cfg) : cfg \in ConcConfigInputs}
    /\ host = DirectHost
    /\ calls = [c \in CallIds |-> IdleCall]

ConcNext ==
    \E c \in CallIds :
        \/ \E in \in ConcInputs : StartCall(c, in)
        \/ TimerFire(c)
        \/ \E response \in ConcResponses : FetchResolve(c, response)
        \/ Resume(c)
        \/ FetchFail(c)
        \/ FetchAbort(c)
        \/ BodyDone(c)
        \/ Return(c)

ConcSpec == ConcInit /\ [][ConcNext]_vars

\* The event loop runs what is ready: an armed timer fires, an aborted fetch
\* rejects, an operation whose awaited promise is settled runs on, a body that
\* settles is handed to the operation.  Nothing is assumed
\* of the server (FetchResolve, FetchFail) nor of the caller (StartCall, Return).
FairSpec ==
    /\ ConcSpec
    /\ \A c \in CallIds :
        /\ WF_vars(TimerFire(c))
        /\ WF_vars(FetchAbort(c))
        /\ WF_vars(Resume(c))
        /\ WF_vars(BodyDone(c))

(***************************************************************************)
(* A client created from the environment                                    *)
(***************************************************************************)
\* what process.env holds: each name unset, or set to a string, also the empty one
ProcessEnvs ==
    {[k \in EnvKeys |->
        CASE k = "MARKETPLACE_URL" -> u
          [] k = "MARKETPLACE_API_KEY" -> a
          [] k = "MARKETPLACE_TOKEN" -> t] :
        u \in {Undefined, Str(<<>>), Str(<<"http://env">>)},
        a \in {Undefined, Str(<<>>), Str(<<"e", "k">>)},
        t \in {Undefined, Str(<<"e", "t">>)}}

\* what the window object holds
WindowFields ==
    {[k \in EnvKeys |->
        CASE k = "MARKETPLACE_URL" -> u
          [] k = "MARKETPLACE_API_KEY" -> a
          [] k = "MARKETPLACE_TOKEN" -> t] :
        u \in {Undefined, Str(<<"http://win">>)},
        a \in {Undefined, Str(<<"w", "k">>)},
        t \in {Undefined, Str(<<"w", "t">>)}}

\* Node.js (process only), a browser (window only), a UI host with both, neither
Hosts ==
    {Host(TRUE, e, FALSE, NothingSet) : e \in ProcessEnvs}
    \cup {Host(FALSE, NothingSet, TRUE, w) : w \in WindowFields}
    \cup {Host(TRUE, e, TRUE, w) : e \in ProcessEnvs, w \in WindowFields}
    \cup {DirectHost}

EnvInputs ==
    {Input("listApps", <<>>, Undefined, Undefined, <<>>, NoFile, <<>>),
     Input("getApp", <<"a", "1">>, Undefined, Undefined, <<>>, NoFile, <<>>)}

EnvResponses == {Response(200, JsonBody(Obj(EmptyObject))), Response(404, MalformedBody)}

EnvInit ==
    /\ host \in Hosts
    /\ config \in {createMarketplaceClientFromEnv(host, g) :
                      g \in {Undefined, Fn(Str(<<"u", "1">>))}}
    /\ calls = [c \in CallIds |-> IdleCall]

EnvNext ==
    \E c \in Callers :
        \/ \E in \in EnvInputs : StartCall(c, in)
        \/ TimerFire(c)
        \/ \E response \in EnvResponses : FetchResolve(c, response)
        \/ Resume(c)
        \/ FetchFail(c)
        \/ FetchAbort(c)
        \/ BodyDone(c)
        \/ Return(c)

EnvSpec == EnvInit /\ [][EnvNext]_vars

(***************************************************************************)
(* Two calls that name an app, over identifiers with reserved characters    *)
(***************************************************************************)
UrlAppIds ==
    {<<"a", "1">>, <<"a", "/", "b">>, <<"a", "?", "b">>, <<"a", "#", "b">>,
     <<"a", "&", "b">>, <<"a", "%", "2", "F", "b">>}

UrlVersions ==
    {Undefined, Str(<<"1", ".", "0">>), Str(<<"1", "/", "0">>), Str(<<"1", "&", "x", "=", "y">>)}

UrlInputs ==
    {Input(op, id, Undefined, Undefined, <<>>, NoFile, <<>>) :
        op \in {"getApp", "getAppManifest", "getAppHealth", "deleteApp", "addAppToAccount"},
        id \in UrlAppIds}
    \cup {Input("downloadApp", id, v, Undefined, <<>>, NoFile, <<>>) :
            id \in UrlAppIds, v \in UrlVersions}

UrlResponses == {Response(200, JsonBody(Obj(EmptyObject)))}

UrlCalls == {1, 2}

UrlInit ==
    /\ config = Constructor([baseUrl |-> Given(BaseUrl), apiKey |-> Absent, token |-> Absent,
                             timeout |-> Absent, getUserId |-> Absent])
    /\ host = DirectHost
    /\ calls = [c \in CallIds |-> IdleCall]

UrlNext ==
    \E c \in UrlCalls :
        \/ \E in \in UrlInputs : StartCall(c, in)
        \/ TimerFire(c)
        \/ \E response \in UrlResponses : FetchResolve(c, response)
        \/ Resume(c)
        \/ FetchFail(c)
        \/ FetchAbort(c)
        \/ BodyDone(c)
        \/ Return(c)

UrlSpec == UrlInit /\ [][UrlNext]_vars

(***************************************************************************)
(* The request pipeline called with options of every kind                   *)
(***************************************************************************)
\* RequestInit with a signal of the caller ("none" when the caller gives none)
OptionsWithSignal(method, headers, body, signal) ==
    [method |-> method, headers |-> headers, body |-> body, signal |-> signal]

\* new Headers(init): the list of [name, value] pairs it holds
HeadersInstance(list) == [t |-> "headers", list |-> list]

\* the headers a caller of fetchWithTimeout may put into options.headers
\* (HeadersInit: a record, a Headers instance or an array of pairs)
SuppliedHeaders ==
    {Undefined,
     Obj(Prop("content-type", <<"text/plain">>)),
     HeadersInstance(<< <<"Content-Type", <<"text/plain">>>> >>),
     HeadersInstance(<< <<"x-api-key", <<"k", "2">>>>, <<"X-Trace", <<"1">>>> >>),
     Arr(<< <<"Content-Type", <<"text/plain">>>> >>),
     Arr(<< <<"x-user-id", <<"z">>>>, <<"X-Trace", <<"1">>>> >>),
     Obj(EmptyObject),
     Obj(Prop("Content-Type", <<"text/plain">>)),
     Obj(Prop("x-user-id", <<"z">>)),
     Obj(Prop("x-api-key", <<"k", "2">>)),
     Obj(Prop("Authorization", <<"Basic ", "q">>)),
     Obj(Prop("X-Trace", <<"1">>)),
     Obj([n \in {"Content-Type", "x-user-id", "x-api-key", "Authorization"} |->
            CASE n = "Content-Type" -> <<"text/plain">>
              [] n = "x-user-id" -> <<"z">>
              [] n = "x-api-key" -> <<"k", "2">>
              [] n = "Authorization" -> <<"Basic ", "q">>])}

\* this.fetchWithTimeout(url, options)
PipelineInput(url, options) ==
    [op |-> "fetchWithTimeout", request |-> [url |-> url, options |-> options]]

PipelineInputs ==
    {PipelineInput(BaseUrl.s \o <<"/api/apps?">>, OptionsWithSignal(m, h, b, g)) :
        m \in {Undefined, Str(<<"POST">>)},
        h \in SuppliedHeaders,
        b \in {Undefined, UploadFormData([t |-> "blob", bytes |-> "bytes"], <<"private">>)},
        g \in {"none", "caller.signal"}}

PipelineConfigInputs ==
    [baseUrl : {Given(BaseUrl)},
     apiKey : {Absent, Given(Str(<<"k", "1">>))},
     token : {Absent, Given(Str(<<"t", "1">>))},
     timeout : {Absent},
     getUserId : {Absent, Given(Fn(Str(<<"u", "1">>)))}]

PipelineResponses == {Response(200, JsonBody(Obj(EmptyObject))), Response(404, MalformedBody)}

PipelineInit ==
    /\ config \in {Constructor(cfg) : cfg \in PipelineConfigInputs}
    /\ host = DirectHost
    /\ calls = [c \in CallIds |-> IdleCall]

PipelineNext ==
    \E c \in Callers :
        \/ \E in \in PipelineInputs : StartCall(c, in)
        \/ TimerFire(c)
        \/ \E response \in PipelineResponses : FetchResolve(c, response)
        \/ FetchFail(c)
        \/ FetchAbort(c)
        \/ Return(c)

PipelineSpec == PipelineInit /\ [][PipelineNext]_vars

(***************************************************************************)
(* Properties                                                               *)
(***************************************************************************)
Issued(c) == calls[c].request.issued
Done(c) == calls[c].pc = "done"
\* the call got the status and the headers of a response
HasResponse(c) == calls[c].response.status # 0
Has(h, k) == k \in DOMAIN h

\* C1: every outbound request (JSON or multipart) carries at most one
\* authentication header: x-api-key with the key and no Authorization when an API
\* key is configured (a non-empty string), also when a token is configured too;
\* Authorization: Bearer <token> and no x-api-key when only a token is configured;
\* neither header when neither is configured.
C1_OneAuthHeader ==
    \A c \in CallIds :
        Issued(c) =>
            LET h == calls[c].request.headers
            IN  /\ Truthy(config.apiKey) =>
                    /\ Has(h, "x-api-key") /\ h["x-api-key"] = config.apiKey.s
                    /\ ~Has(h, "Authorization")
                /\ (~Truthy(config.apiKey) /\ Truthy(config.token)) =>
                    /\ Has(h, "Authorization")
                    /\ h["Authorization"] = <<"Bearer ">> \o config.token.s
                    /\ ~Has(h, "x-api-key")
                /\ (~Truthy(config.apiKey) /\ ~Truthy(config.token)) =>
                    /\ ~Has(h, "x-api-key")
                    /\ ~Has(h, "Authorization")

\* a JSON request is out for a client configured with both an API key and a token
C1_Witness ==
    \E c \in CallIds :
        /\ Issued(c)
        /\ calls[c].input.op = "getApp"
        /\ Truthy(config.apiKey)
        /\ Truthy(config.token)

\* C2: on every request the x-user-id header is the value the accessor returns,
\* and is 'dev' when the accessor is absent or returns an empty value (undefined,
\* or the empty string).
C2_UserIdHeader ==
    \A c \in CallIds :
        Issued(c) =>
            /\ Has(calls[c].request.headers, "x-user-id")
            /\ calls[c].request.headers["x-user-id"] =
                  IF config.getUserId.t = "function" /\ Truthy(config.getUserId.ret)
                  THEN config.getUserId.ret.s
                  ELSE <<"dev">>

\* C3: when the timer fires before the transport delivers a response, the call
\* fails with MarketplaceError "Request timeout", statusCode 408, and once it has
\* failed no timer callback of the call can run.
C3_Timeout ==
    \A c \in CallIds :
        calls[c].timer = "fired" =>
            /\ calls[c].pc \in {"fetch", "resume", "done"}
            /\ ~HasResponse(c)
            /\ Done(c) =>
                /\ calls[c].result =
                      Rejected(MarketplaceError(<<"Request timeout">>, Num(408), Undefined))
                /\ ~ENABLED TimerFire(c)

\* a call has failed after its timer fired
C3_Witness ==
    \E c \in CallIds :
        /\ Done(c)
        /\ calls[c].timer = "fired"
        /\ calls[c].aborted
        /\ calls[c].result.kind = "throw"

\* C4: a call in flight eventually completes, whatever the server does, as long
\* as an armed timer eventually fires.
C4_CallCompletes ==
    \A c \in CallIds :
        (calls[c].pc \in {"fetch", "resume", "body", "errbody"}) ~> (calls[c].pc = "done")

\* C5: the timer is armed before the request is issued, and no call that has
\* completed (success, non-2xx failure, timeout, transport failure, accessor
\* throwing) has a timer still pending.
C5_TimerCancelled ==
    \A c \in CallIds :
        /\ Issued(c) => calls[c].timer # "unset"
        /\ calls[c].pc = "fetch" => calls[c].timer \in {"armed", "fired"}
        /\ Done(c) => calls[c].timer \in {"cleared", "fired"}
        /\ Done(c) => ~ENABLED TimerFire(c)

\* a call has completed because the accessor threw while the headers were built
C5_Witness ==
    \E c \in CallIds :
        /\ Done(c)
        /\ ~Issued(c)
        /\ calls[c].result = Rejected(AccessorError)
        /\ calls[c].timer = "cleared"

\* C6: a non-2xx response with status s whose body is the JSON object
\* { error: X, code: Y } makes the call fail with MarketplaceError X, s, Y.
C6_ServerError ==
    \A c \in CallIds :
        ( /\ Done(c)
          /\ HasResponse(c)
          /\ ~ok(calls[c].response)
          /\ calls[c].response.body.kind = "json"
          /\ Get(calls[c].response.body.val, "error").t = "string"
          /\ Get(calls[c].response.body.val, "code").t = "string" )
        => calls[c].result =
              Rejected([t |-> "error", name |-> "MarketplaceError",
                        message |-> calls[c].response.body.val.o["error"].s,
                        statusCode |-> Num(calls[c].response.status),
                        code |-> calls[c].response.body.val.o["code"]])

\* a delete call has failed on 403 { error: X, code: Y }
C6_Witness ==
    \E c \in CallIds :
        /\ Done(c)
        /\ calls[c].input.op = "deleteApp"
        /\ calls[c].response = Response(403, JsonBody(ErrorXY))
        /\ calls[c].result.kind = "throw"

\* the fallback messages as the documentation lists them
C7_Fallback(in) ==
    CASE in.op = "listApps" -> <<"Failed to fetch apps">>
      [] in.op = "searchApps" -> <<"Failed to fetch apps">>
      [] in.op = "getApp" -> <<"Failed to fetch app: ">> \o in.appId
      [] in.op = "downloadApp" -> <<"Failed to download app: ">> \o in.appId
      [] in.op = "getAppManifest" -> <<"Failed to fetch manifest: ">> \o in.appId
      [] in.op = "uploadApp" -> <<"Upload failed">>
      [] in.op = "getAppHealth" -> <<"Health check failed">>
      [] in.op = "deleteApp" -> <<"Failed to delete app">>
      [] in.op = "addAppToAccount" -> <<"Failed to add app to account">>

\* C7: a non-2xx response with status s whose body is not JSON (malformed or
\* empty) makes the call fail with MarketplaceError carrying the fallback message
\* of the operation, statusCode s and no code.
C7_FallbackError ==
    \A c \in CallIds :
        ( /\ Done(c)
          /\ HasResponse(c)
          /\ ~ok(calls[c].response)
          /\ calls[c].response.body.kind \in {"malformed", "empty"} )
        => calls[c].result =
              Rejected([t |-> "error", name |-> "MarketplaceError",
                        message |-> C7_Fallback(calls[c].input),
                        statusCode |-> Num(calls[c].response.status),
                        code |-> Undefined])

\* a get call on an identifier with a slash has failed on 404 with a malformed body
C7_Witness ==
    \E c \in CallIds :
        /\ Done(c)
        /\ calls[c].input.op = "getApp"
        /\ calls[c].input.appId = <<"a", "/", "b">>
        /\ calls[c].response = Response(404, MalformedBody)
        /\ calls[c].result.kind = "throw"

\* C8: listApps on a 2xx response returns the apps sequence [A, B] of the body
\* as it is, in order, and the empty sequence when the body object has no apps
\* field.
C8_ListResult ==
    \A c \in CallIds :
        ( /\ Done(c)
          /\ calls[c].input.op = "listApps"
          /\ HasResponse(c)
          /\ ok(calls[c].response)
          /\ calls[c].response.body.kind = "json"
          /\ calls[c].response.body.val.t = "object" )
        => LET o == calls[c].response.body.val.o
           IN  /\ (Has(o, "apps") /\ o["apps"] = Arr(<<AppA, AppB>>))
                    => calls[c].result = Fulfilled(Arr(<<AppA, AppB>>))
               /\ ~Has(o, "apps") => calls[c].result = Fulfilled(Arr(<<>>))

\* a list call has returned on a 2xx response whose body holds apps: [A, B]
C8_Witness ==
    \E c \in CallIds :
        /\ Done(c)
        /\ calls[c].input.op = "listApps"
        /\ ok(calls[c].response)
        /\ calls[c].response.body = JsonBody(Obj(Prop("apps", Arr(<<AppA, AppB>>))))
        /\ calls[c].result.kind = "return"

\* the request line of a list or search call with the given query parameters
C9_ListUrl(params) == config.baseUrl.s \o <<"/api/apps?">> \o ParamsToString(params)

C9_Category(f) ==
    IF Has(Props(f), "category") THEN << <<"category", Props(f)["category"].s>> >> ELSE <<>>

C9_NonEmptyCategory(f) ==
    IF Has(Props(f), "category") /\ Props(f)["category"].s # <<>>
    THEN << <<"category", Props(f)["category"].s>> >> ELSE <<>>

\* C9 as stated: the request of searchApps(q, f) carries search=q, and
\* category=f.category whenever f has a category, and nothing else.
C9_SearchAlwaysSent ==
    \A c \in CallIds :
        (Issued(c) /\ calls[c].input.op = "searchApps") =>
            calls[c].request.url =
                C9_ListUrl(<< <<"search", calls[c].input.query>> >>
                           \o C9_Category(calls[c].input.filters))

\* C9 as amended: the request of searchApps(q, f) is a GET of /api/apps? whose
\* query parameters are search=q when q is not empty (no search parameter for the
\* empty query) followed by category=f.category when f has a non-empty category;
\* a search string in f is never sent; and on a 2xx JSON object body the call
\* returns what listApps returns, data.apps ?? [].
C9_SearchAsList ==
    \A c \in CallIds :
        /\ (Issued(c) /\ calls[c].input.op = "searchApps") =>
            /\ calls[c].request.method = <<"GET">>
            /\ calls[c].request.url =
                  C9_ListUrl((IF calls[c].input.query # <<>>
                              THEN << <<"search", calls[c].input.query>> >> ELSE <<>>)
                             \o C9_NonEmptyCategory(calls[c].input.filters))
        /\ ( /\ Done(c)
             /\ calls[c].input.op = "searchApps"
             /\ HasResponse(c)
             /\ ok(calls[c].response)
             /\ calls[c].response.body.kind = "json"
             /\ calls[c].response.body.val.t = "object" )
           => calls[c].result =
                 Fulfilled(IF Has(calls[c].response.body.val.o, "apps")
                           THEN calls[c].response.body.val.o["apps"]
                           ELSE Arr(<<>>))

\* a search request is out whose filters hold a category and an older search string
C9_Witness ==
    \E c \in CallIds :
        /\ Issued(c)
        /\ calls[c].input.op = "searchApps"
        /\ calls[c].input.query = <<"w", "e", "a">>
        /\ Has(Props(calls[c].input.filters), "search")
        /\ Has(Props(calls[c].input.filters), "category")
        /\ calls[c].request.url =
              config.baseUrl.s
              \o <<"/api/apps?", "search", "=", "w", "e", "a", "&",
                   "category", "=", "t", "o", "o", "l", "s">>

\* C10: an upload request has no Content-Type header (so never
\* application/json), and the request of every other operation carries
\* Content-Type: application/json.
C10_ContentType ==
    \A c \in CallIds :
        Issued(c) =>
            IF calls[c].input.op = "uploadApp"
            THEN ~Has(calls[c].request.headers, "Content-Type")
            ELSE /\ Has(calls[c].request.headers, "Content-Type")
                 /\ calls[c].request.headers["Content-Type"] = <<"application/json">>

\* an upload request is out, with its multipart body
C10_Witness ==
    \E c \in CallIds :
        /\ Issued(c)
        /\ calls[c].input.op = "uploadApp"
        /\ calls[c].request.body.t = "formdata"

\* C11: deleteApp on 403 { "error": "Not authorized" } fails with that message
\* and statusCode 403; on every non-2xx response whose body carries an error
\* message it fails with that message and the status; on every 2xx response it
\* completes with no value, and the body of that response is never read.
C11_Delete ==
    \A c \in CallIds :
        calls[c].input.op = "deleteApp" =>
            /\ calls[c].pc # "body"
            /\ (Done(c) /\ HasResponse(c) /\ ok(calls[c].response)) =>
                  calls[c].result = Fulfilled(Undefined)
            /\ ( /\ Done(c)
                 /\ HasResponse(c)
                 /\ ~ok(calls[c].response)
                 /\ calls[c].response.body.kind = "json"
                 /\ Get(calls[c].response.body.val, "error").t = "string" )
               => /\ calls[c].result.kind = "throw"
                  /\ calls[c].result.error.name = "MarketplaceError"
                  /\ calls[c].result.error.message = calls[c].response.body.val.o["error"].s
                  /\ calls[c].result.error.statusCode = Num(calls[c].response.status)
            /\ (Done(c) /\ calls[c].response =
                    Response(403, JsonBody(Obj(Prop("error", Str(<<"Not authorized">>))))))
               => calls[c].result =
                     Rejected([t |-> "error", name |-> "MarketplaceError",
                               message |-> <<"Not authorized">>,
                               statusCode |-> Num(403), code |-> Undefined])

\* a delete call has failed on 403 { "error": "Not authorized" }
C11_Witness ==
    \E c \in CallIds :
        /\ Done(c)
        /\ calls[c].input.op = "deleteApp"
        /\ calls[c].response =
              Response(403, JsonBody(Obj(Prop("error", Str(<<"Not authorized">>)))))
        /\ calls[c].result.kind = "throw"

C13_StatusDecides ==
    \A c \in CallIds :
        /\ (Done(c) /\ calls[c].result.kind = "return") =>
              /\ HasResponse(c)
              /\ calls[c].response.status >= 200
              /\ calls[c].response.status <= 299
        /\ calls[c].pc = "body" =>
              (calls[c].response.status >= 200 /\ calls[c].response.status <= 299)
        /\ ( /\ Done(c)
             /\ HasResponse(c)
             /\ (calls[c].response.status < 200 \/ calls[c].response.status > 299) )
           => /\ calls[c].result.kind = "throw"
              /\ calls[c].result.error.name = "MarketplaceError"
              /\ calls[c].result.error.statusCode = Num(calls[c].response.status)

\* a get call has failed on 404
C13_Witness ==
    \E c \in CallIds :
        /\ Done(c)
        /\ calls[c].input.op = "getApp"
        /\ calls[c].response.status = 404
        /\ calls[c].result.kind = "throw"
        /\ calls[c].result.error.statusCode = Num(404)

\* the transport failed before it delivered a response, and not by the timeout
FetchFailed(c) == Done(c) /\ Issued(c) /\ ~HasResponse(c) /\ ~calls[c].aborted

\* the transport failed while the operation read the body of the response
BodyFailed(c) ==
    /\ Done(c)
    /\ HasResponse(c)
    /\ calls[c].response.body.kind = "reset"
    /\ (ok(calls[c].response) => calls[c].input.op # "deleteApp")

\* C14 as stated: whenever the transport fails, other than by the timeout, the
\* call fails with the error the transport raised, unchanged.
C14_TransportErrorAsIs ==
    \A c \in CallIds :
        /\ FetchFailed(c) => calls[c].result = Rejected(NetworkError)
        /\ BodyFailed(c) => calls[c].result = Rejected(BodyError)

\* C14 as amended: a transport failure of fetch itself, or one raised while the
\* body of a 2xx response is read, makes the call fail with the error the
\* transport raised, unchanged; a transport failure raised while the body of a
\* non-2xx response is read is replaced by the MarketplaceError of that response
\* (fallback message, its status, no code).
C14_TransportError ==
    \A c \in CallIds :
        /\ FetchFailed(c) => calls[c].result = Rejected(NetworkError)
        /\ (BodyFailed(c) /\ ok(calls[c].response)) => calls[c].result = Rejected(BodyError)
        /\ (BodyFailed(c) /\ ~ok(calls[c].response)) =>
              calls[c].result =
                 Rejected([t |-> "error", name |-> "MarketplaceError",
                           message |-> C7_Fallback(calls[c].input),
                           statusCode |-> Num(calls[c].response.status),
                           code |-> Undefined])

\* a call has failed because the transport could not deliver a response
C14_Witness ==
    \E c \in CallIds :
        /\ FetchFailed(c)
        /\ calls[c].timer = "cleared"
        /\ calls[c].result.kind = "throw"
        /\ calls[c].result.error.name = "TypeError"

\* C20: createMarketplaceClientFromEnv takes the base URL, the API key and the
\* token from the process environment variable when it is set and otherwise from
\* the field of the window object; the base URL is http://localhost:3002 when no
\* usable source is present, also when the environment variable is the empty
\* string.
C20_FromEnv ==
    LET fromEnv(k) == IF EnvValue(host, k) # Undefined THEN EnvValue(host, k)
                      ELSE WindowValue(host, k)
        url == IF Truthy(EnvValue(host, "MARKETPLACE_URL"))
               THEN EnvValue(host, "MARKETPLACE_URL")
               ELSE WindowValue(host, "MARKETPLACE_URL")
    IN  /\ config.baseUrl = IF Truthy(url) THEN url ELSE Str(<<"http://localhost:3002">>)
        /\ config.apiKey = fromEnv("MARKETPLACE_API_KEY")
        /\ config.token = fromEnv("MARKETPLACE_TOKEN")

\* C15 as stated: the request of listApps(filters) carries one query parameter
\* for each of search, category and visibility that filters supplies, with its
\* value, and none for a criterion filters does not supply.
C15_Supplied(f, k) ==
    IF Has(Props(f), k) /\ Props(f)[k] # Undefined
    THEN << <<k, Props(f)[k].s>> >> ELSE <<>>

C15_AllFilters ==
    \A c \in CallIds :
        (Issued(c) /\ calls[c].input.op = "listApps")
        => LET f == calls[c].input.filters
           IN  calls[c].request.url =
                   C9_ListUrl(C15_Supplied(f, "search") \o C15_Supplied(f, "category")
                              \o C15_Supplied(f, "visibility"))

\* C18: no step of any operation call, successful or failed, changes the base
\* URL, the API key, the token, the timeout or the user-identity accessor of the
\* client.
C18_ConfigImmutable == [][config' = config]_vars

C18_Witness ==
    \E c \in CallIds :
        /\ Done(c)
        /\ calls[c].result.kind = "throw"
        /\ calls[c].sent = 1

\* C19: on a 2xx response with a JSON object body getApp and uploadApp return
\* its app field, getAppManifest its manifest field (undefined, not a failure,
\* when the field is missing), getAppHealth and addAppToAccount the object
\* itself; downloadApp returns the body as a blob whatever its content.
C19_SuccessMapping ==
    \A c \in CallIds :
        (Done(c) /\ HasResponse(c) /\ ok(calls[c].response))
        => LET body == calls[c].response.body
               op == calls[c].input.op
               field(k) == IF Has(body.val.o, k) THEN body.val.o[k] ELSE Undefined
           IN  /\ (op = "downloadApp" /\ body.kind # "reset")
                    => calls[c].result = Fulfilled([t |-> "blob", raw |-> body])
               /\ (body.kind = "json" /\ body.val.t = "object")
                    => /\ op \in {"getApp", "uploadApp"}
                            => calls[c].result = Fulfilled(field("app"))
                       /\ op = "getAppManifest"
                            => calls[c].result = Fulfilled(field("manifest"))
                       /\ op \in {"getAppHealth", "addAppToAccount"}
                            => calls[c].result = Fulfilled(body.val)

C19_Witness ==
    \E c \in CallIds :
        /\ Done(c)
        /\ calls[c].input.op = "getAppManifest"
        /\ calls[c].response = Response(200, JsonBody(Obj(Prop("app", AppA))))
        /\ calls[c].result = Fulfilled(Undefined)

\* C17: calls in flight on one client are independent.  The signal of a call is
\* aborted only by its own timer, a call ends with the timeout failure only when
\* its own timer fired, and a step of one call (its start, timeout, response,
\* failure, body or return) leaves every other call as it was.
C17_OwnTimeout(c) ==
    /\ calls[c].aborted => calls[c].timer = "fired"
    /\ ( /\ Done(c)
         /\ calls[c].result =
                Rejected(MarketplaceError(<<"Request timeout">>, Num(TimeoutStatus), Undefined)) )
       => calls[c].timer = "fired"

C17_Independent ==
    /\ [](\A c \in CallIds : C17_OwnTimeout(c))
    /\ [][\A c \in CallIds :
            calls'[c] # calls[c] => \A d \in CallIds \ {c} : calls'[d] = calls[d]]_vars

C17_Witness ==
    \E c, d \in CallIds :
        /\ c # d
        /\ Done(c)
        /\ calls[c].timer = "fired"
        /\ calls[c].result.kind = "throw"
        /\ Done(d)
        /\ calls[d].timer = "cleared"
        /\ calls[d].result.kind = "return"

\* C16: in getApp, downloadApp, getAppManifest, getAppHealth, deleteApp and
\* addAppToAccount the characters of the request url after the base URL have the
\* path segments and the query of the operation whatever the identifier and the
\* version contain (no '/', '?', '#', '&' or '=' of theirs reaches the url), and
\* two calls of one operation with the same url name the same identifier.
C16_Count(s, ch) == Cardinality({i \in DOMAIN s : s[i] = ch})

\* the url of call c after the base URL, as characters
C16_Url(c) ==
    Chars(SubSeq(calls[c].request.url, Len(config.baseUrl.s) + 1, Len(calls[c].request.url)))

C16_ById ==
    {"getApp", "downloadApp", "getAppManifest", "getAppHealth", "deleteApp", "addAppToAccount"}

C16_Shape(c) ==
    LET u == C16_Url(c)
        op == calls[c].input.op
        versioned == op = "downloadApp" /\ Truthy(calls[c].input.version)
    IN  /\ C16_Count(u, "/") = IF op \in {"getApp", "deleteApp"} THEN 3 ELSE 4
        /\ C16_Count(u, "?") = IF versioned THEN 1 ELSE 0
        /\ C16_Count(u, "=") = IF versioned THEN 1 ELSE 0
        /\ C16_Count(u, "&") = 0
        /\ C16_Count(u, "#") = 0
        /\ \A i, j \in DOMAIN u : (u[i] = "?" /\ u[j] = "/") => j < i

C16_Encoded ==
    /\ \A c \in CallIds :
        (Issued(c) /\ calls[c].input.op \in C16_ById) => C16_Shape(c)
    /\ \A c, d \in CallIds :
        ( /\ Issued(c) /\ Issued(d)
          /\ calls[c].input.op \in C16_ById
          /\ calls[c].input.op = calls[d].input.op
          /\ C16_Url(c) = C16_Url(d) )
        => calls[c].input.appId = calls[d].input.appId

C16_Witness ==
    \E c, d \in CallIds :
        /\ Issued(c) /\ Issued(d)
        /\ calls[c].input.op = "downloadApp" /\ calls[d].input.op = "downloadApp"
        /\ calls[c].input.appId = <<"a", "/", "b">>
        /\ calls[c].input.version = Str(<<"1", "&", "x", "=", "y">>)
        /\ calls[d].input.appId = <<"a", "%", "2", "F", "b">>
        /\ C16_Url(c) # C16_Url(d)

\* C21: every operation issues the method and the path of the outbound contract,
\* relative to the base URL: GET /api/apps?... (list, search), GET /api/apps/{id},
\* GET /api/apps/{id}/download with ?version=<v> exactly when a non-empty version
\* is given, GET /api/apps/{id}/manifest, POST /api/apps/upload,
\* GET /api/apps/{id}/health, DELETE /api/apps/{id}, POST /api/apps/{id}/add-to-account.
C21_Apps == <<"/", "a", "p", "i", "/", "a", "p", "p", "s">>

C21_Method(op) ==
    CASE op \in {"uploadApp", "addAppToAccount"} -> <<"POST">>
      [] op = "deleteApp" -> <<"DELETE">>
      [] OTHER -> <<"GET">>

\* what follows /api/apps/{id} in the path of the operation
C21_Suffix(op) ==
    CASE op = "downloadApp" -> <<"/", "d", "o", "w", "n", "l", "o", "a", "d">>
      [] op = "getAppManifest" -> <<"/", "m", "a", "n", "i", "f", "e", "s", "t">>
      [] op = "getAppHealth" -> <<"/", "h", "e", "a", "l", "t", "h">>
      [] op = "addAppToAccount" ->
            <<"/", "a", "d", "d", "-", "t", "o", "-", "a", "c", "c", "o", "u", "n", "t">>
      [] OTHER -> <<>>

C21_Query(in) ==
    IF in.op = "downloadApp" /\ in.version.t = "string" /\ in.version.s # <<>>
    THEN <<"?", "v", "e", "r", "s", "i", "o", "n", "=">> \o Chars(encodeURIComponent(in.version.s))
    ELSE <<>>

C21_Contract ==
    \A c \in CallIds :
        Issued(c)
        => LET in == calls[c].input
               url == calls[c].request.url
               base == config.baseUrl.s
               path == Chars(SubSeq(url, Len(base) + 1, Len(url)))
           IN  /\ calls[c].request.method = C21_Method(in.op)
               /\ SubSeq(url, 1, Len(base)) = base
               /\ CASE in.op \in {"listApps", "searchApps"} ->
                        SubSeq(path, 1, Len(C21_Apps) + 1) = C21_Apps \o <<"?">>
                    [] in.op = "uploadApp" ->
                        path = C21_Apps \o <<"/", "u", "p", "l", "o", "a", "d">>
                    [] OTHER ->
                        path = C21_Apps \o <<"/">> \o Chars(encodeURIComponent(in.appId))
                               \o C21_Suffix(in.op) \o C21_Query(in)

C21_Witness ==
    \E c \in CallIds :
        /\ Issued(c)
        /\ calls[c].input.op = "downloadApp"
        /\ calls[c].input.version = Str(<<>>)
        /\ calls[c].request.method = <<"GET">>

\* C22: a call ends with a MarketplaceError exactly when it failed by a non-2xx
\* status or by the timeout; a call that returns a value, and a call that fails
\* by a transport error, by a throwing accessor or by a 2xx body that cannot be
\* parsed, ends with no MarketplaceError.
C22_IsMarketplaceError(c) ==
    /\ calls[c].result.kind = "throw"
    /\ calls[c].result.error.name = "MarketplaceError"

C22_ExactlyOnFailure ==
    \A c \in CallIds :
        Done(c) => ( C22_IsMarketplaceError(c)
                     <=> \/ HasResponse(c) /\ ~ok(calls[c].response)
                         \/ calls[c].timer = "fired" )

C22_Witness ==
    \E c \in CallIds :
        /\ Done(c)
        /\ calls[c].response = Response(200, MalformedBody)
        /\ calls[c].result = Rejected(JsonSyntaxError)

\* C25: the timeout of a client is 30000 ms when its config object supplies no
\* number, whether the timeout key is left out or written with the value
\* undefined, and is the supplied number otherwise.
C25_DefaultTimeout ==
    \A cfg \in ConfigInputs :
        config = Constructor(cfg)
        => config.timeout = IF cfg.timeout.present /\ cfg.timeout.v.t = "number"
                            THEN cfg.timeout.v
                            ELSE Num(DefaultTimeout)

\* C24: the request of uploadApp is one POST whose body is a multipart form of
\* exactly two fields, package holding the bytes of the payload (a File, a Blob or
\* a Buffer) and visibility holding the visibility given; its x-user-id, x-api-key
\* and Authorization headers are those of the other requests of the client.
C24_AuthNames == {"x-user-id", "x-api-key", "Authorization"}

C24_Upload ==
    \A c \in CallIds :
        (Issued(c) /\ calls[c].input.op = "uploadApp")
        => LET req == calls[c].request
               in == calls[c].input
           IN  /\ req.method = <<"POST">>
               /\ calls[c].sent = 1
               /\ req.body.t = "formdata"
               /\ Len(req.body.entries) = 2
               /\ req.body.entries[1].name = "package"
               /\ req.body.entries[1].value.bytes = in.file.bytes
               /\ req.body.entries[1].value.t \in {"file", "blob"}
               /\ req.body.entries[2].name = "visibility"
               /\ req.body.entries[2].value = Str(in.visibility)
               /\ \A n \in C24_AuthNames :
                    /\ Has(req.headers, n) <=> Has(getHeaders(config), n)
                    /\ Has(req.headers, n) => req.headers[n] = getHeaders(config)[n]

C24_Witness ==
    \E c \in CallIds :
        /\ Issued(c)
        /\ calls[c].input.op = "uploadApp"
        /\ calls[c].input.file.t = "buffer"
        /\ Has(calls[c].request.headers, "x-api-key")
        /\ Len(calls[c].request.body.entries) = 2

\* C26: for every client configuration the headers built for a multipart request
\* are the headers getHeaders builds without the Content-Type entry: the same
\* x-user-id and the same authentication header.
C26_WithoutContentType(h) == [n \in DOMAIN h \ {"Content-Type"} |-> h[n]]

C26_SameHeaders ==
    ~GetUserIdThrows(config)
    => /\ FormDataHeaders(config) = C26_WithoutContentType(getHeaders(config))
       /\ \A c \in CallIds :
            (Issued(c) /\ calls[c].input.op = "uploadApp")
            => calls[c].request.headers = C26_WithoutContentType(getHeaders(config))

C26_Witness ==
    \E c \in CallIds :
        /\ Issued(c)
        /\ calls[c].input.op = "uploadApp"
        /\ ~Has(calls[c].request.headers, "x-api-key")
        /\ Has(calls[c].request.headers, "Authorization")
        /\ calls[c].request.headers["x-user-id"] = <<"u", "1">>

\* C23 as stated: in a request of fetchWithTimeout every header the options
\* supply (as a record, a Headers instance or an array of pairs, header names
\* compared without regard to case) is sent with the supplied value and with no
\* other, every default not supplied is sent as computed, and the signal is the
\* one of the pipeline's own controller even when the options carry a signal.
C23_Lower ==
    [n \in {"Content-Type", "content-type", "x-user-id", "x-api-key", "Authorization",
            "X-Trace", "0", "1"} |->
        CASE n = "Content-Type" -> "content-type"
          [] n = "Authorization" -> "authorization"
          [] n = "X-Trace" -> "x-trace"
          [] OTHER -> n]

\* the [name, value] pairs the options supply
C23_Supplied(h) ==
    CASE h.t = "object" -> {<<n, h.o[n]>> : n \in DOMAIN h.o}
      [] h.t = "headers" -> {h.list[i] : i \in DOMAIN h.list}
      [] h.t = "array" -> {h.a[i] : i \in DOMAIN h.a}
      [] OTHER -> {}

C23_Defaults(c) ==
    IF calls[c].request.body.t = "formdata"
    THEN [n \in DOMAIN getHeaders(config) \ {"Content-Type"} |-> getHeaders(config)[n]]
    ELSE getHeaders(config)

C23_Override ==
    \A c \in CallIds :
        (Issued(c) /\ calls[c].input.op = "fetchWithTimeout")
        => LET supplied == C23_Supplied(calls[c].input.request.options.headers)
               sent == calls[c].request.headers
           IN  /\ \A p \in supplied :
                    /\ \E n \in DOMAIN sent : C23_Lower[n] = C23_Lower[p[1]] /\ sent[n] = p[2]
                    /\ \A n \in DOMAIN sent : C23_Lower[n] = C23_Lower[p[1]] => sent[n] = p[2]
               /\ \A n \in DOMAIN C23_Defaults(c) :
                    (\A p \in supplied : C23_Lower[p[1]] # C23_Lower[n])
                    => n \in DOMAIN sent /\ sent[n] = C23_Defaults(c)[n]
               /\ calls[c].request.signal = "controller.signal"

====
